---- MODULE Spec2Model ----
(***************************************************************************)
(* Verification model of the number-theoretic core of the repository:      *)
(*   experiment1_factor.py : is_probable_prime, generate_prime,            *)
(*                           generate_semiprime, pollards_rho,             *)
(*                           trial_division_small, factor_semiprime and    *)
(*                           the success test of run_experiment            *)
(*   experiment2_ec.py     : brute_force_dlog and the sample loop body of  *)
(*                           run_experiment                                *)
(* Every random draw (secrets.randbelow, secrets.randbits, random.randint) *)
(* is a nondeterministic choice.  Python integers are unbounded; products  *)
(* modulo n are computed by MulMod so that no intermediate value leaves    *)
(* the range of the model checker's integers.                              *)
(***************************************************************************)
EXTENDS Integers, Sequences, FiniteSets, TLC

\* Python's None for an Optional[int] (all proper values are >= 0).
None == -1

----------------------------------------------------------------------------
\* Program constants.
TrialLimit == 1000
DefaultMaxIter == 1000000
Attempts == 10
DefaultRounds == 8

\* Bounds of the model.
MaxRhoN == 15
MaxIterSmall == 2
MaxSmallN == 40
MaxDraw == 16
MaxIppN == 64
MaxPrimeBits == 5
MaxSemiBits == 10
MaxOrder == 7
MaxK == 7
MaxSecret == 8

\* Large inputs of factor_semiprime: every prime factor exceeds TrialLimit.
BigPrimes == {1009, 1013, 1019}
BigN == {1009, 1009 * 1009} \cup {a * b : a, b \in BigPrimes}

\* Composites and primes beyond MaxIppN given to is_probable_prime; 961 and
\* 1147 have no prime factor below 31.
ProbeN == {961, 997, 1147}

\* (p_true, q_true) pairs as generate_semiprime hands them to the harness:
\* distinct primes, q as long as p or one bit longer.
HarnessPairs ==
    {<<3, 5>>, <<3, 7>>, <<5, 7>>, <<7, 5>>, <<11, 13>>, <<13, 11>>,
     <<83, 97>>, <<97, 83>>, <<1009, 1013>>, <<1013, 1009>>,
     <<1009, 1019>>, <<1019, 1013>>}

----------------------------------------------------------------------------
VARIABLES
    top,                                    \* the function called from outside
    \* pollards_rho
    n, max_iter, attempt, x, y, c, d, iters, rho_pc, rho_result,
    draws, rho_calls,
    \* factor_semiprime and the harness row of experiment1_factor
    N, fs_pc, f1, f2, p_true, q_true, success,
    \* is_probable_prime
    ipp_n, ipp_pc, ipp_round, ipp_result, accepted,
    \* generate_prime
    gp_bits, gp_pc, candidate, gp_result, gp_sampled,
    \* generate_semiprime
    gs_bits, gs_pc, p, q, gs_N,
    \* brute_force_dlog and the harness row of experiment2_ec
    grp, G, Q, max_k, max_secret, secret_k, current, k, dl_pc, found_k,
    dl_success

rhoVars == <<n, max_iter, attempt, x, y, c, d, iters, rho_pc, rho_result,
             draws, rho_calls>>
fsVars == <<N, fs_pc, f1, f2, p_true, q_true, success>>
ippVars == <<ipp_n, ipp_pc, ipp_round, ipp_result, accepted>>
gpVars == <<gp_bits, gp_pc, candidate, gp_result, gp_sampled>>
gsVars == <<gs_bits, gs_pc, p, q, gs_N>>
dlVars == <<grp, G, Q, max_k, max_secret, secret_k, current, k, dl_pc,
            found_k, dl_success>>
factorVars == <<rhoVars, fsVars>>
primeVars == <<ippVars, gpVars, gsVars>>
vars == <<top, factorVars, primeVars, dlVars>>

----------------------------------------------------------------------------
\* Arithmetic helpers.

Abs(a) == IF a < 0 THEN -a ELSE a

\* math.gcd: Euclid's algorithm on non-negative arguments.
RECURSIVE gcd(_, _)
gcd(a, b) == IF b = 0 THEN a ELSE gcd(b, a % b)

\* (a * b) % m for 0 <= a, b < m, by doubling, every intermediate value < 3m.
RECURSIVE MulMod(_, _, _)
MulMod(a, b, m) ==
    IF b = 0 THEN 0
    ELSE (2 * MulMod(a, b \div 2, m) + (b % 2) * a) % m

\* f(v) = (v * v + c) % n, the polynomial of pollards_rho.
RhoF(v, cc, m) == (MulMod(v % m, v % m, m) + cc) % m

\* secrets.randbelow(m): every value of 0..m-1 for small m, a sample of the
\* range (both ends) for large m.
RandBelow(m) ==
    IF m <= MaxDraw THEN 0 .. (m - 1) ELSE {0, 1, m - 2, m - 1}

----------------------------------------------------------------------------
\* trial_division_small: the first p of range(from, limit + 1) dividing m,
\* None when the loop ends without a hit.
FirstDivisor(m, from, limit) ==
    LET hits == {v \in from .. limit : m % v = 0}
    IN  IF hits = {} THEN None
        ELSE CHOOSE v \in hits : \A w \in hits : v <= w

trial_division_small_from3(m, limit) == FirstDivisor(m, 3, limit)
trial_division_small(m, limit) == FirstDivisor(m, 2, limit)

\* `while d == 1 and iters < max_iter`
RhoLoopGuard_le(dd, it, cap) == dd = 1 /\ it <= cap
RhoLoopGuard(dd, it, cap) == dd = 1 /\ it < cap

\* `d = gcd(abs(x - y), n)`
RhoGcd_nogcd(a, b, m) == Abs(a - b)
RhoGcd(a, b, m) == gcd(Abs(a - b), m)

\* `if 1 < d < n`
RhoFound_noupper(dd, m) == 1 < dd
RhoFound(dd, m) == 1 < dd /\ dd < m

\* sorted([a, b])
Sorted2(a, b) == IF a <= b THEN <<a, b>> ELSE <<b, a>>

\* `success` of run_experiment (lines 130-135).
HarnessSuccess(g1, g2, pt, qt) ==
    IF g1 # None /\ g2 # None
    THEN LET found == Sorted2(g1, g2)
             true == Sorted2(pt, qt)
         IN  found = true \/ found = Sorted2(true[2], true[1])
    ELSE FALSE

----------------------------------------------------------------------------
----------------------------------------------------------------------------
\* Initial states: one outside call, nothing executed yet.

RhoIdle ==
    /\ n = 0 /\ max_iter = 0 /\ attempt = 0 /\ x = 0 /\ y = 0 /\ c = 0
    /\ d = 0 /\ iters = 0 /\ rho_pc = "idle" /\ rho_result = None
    /\ draws = 0 /\ rho_calls = 0

FsIdle ==
    /\ N = 0 /\ fs_pc = "idle" /\ f1 = None /\ f2 = None
    /\ p_true = 0 /\ q_true = 0 /\ success = FALSE

IppIdle ==
    /\ ipp_n = 0 /\ ipp_pc = "idle" /\ ipp_round = 0 /\ ipp_result = FALSE
    /\ accepted = {}

GpIdle ==
    /\ gp_bits = 0 /\ gp_pc = "idle" /\ candidate = 0 /\ gp_result = None
    /\ gp_sampled = FALSE

GsIdle ==
    /\ gs_bits = 0 /\ gs_pc = "idle" /\ p = 0 /\ q = 0 /\ gs_N = 0

DlIdle ==
    /\ grp = 1 /\ G = 0 /\ Q = 0 /\ max_k = 0 /\ max_secret = 0
    /\ secret_k = 0 /\ current = 0 /\ k = 0 /\ dl_pc = "idle"
    /\ found_k = None /\ dl_success = FALSE

\* pollards_rho(n, max_iter) called directly.
InitRho ==
    /\ top = "pollards_rho"
    /\ n \in 2 .. MaxRhoN
    /\ max_iter \in (0 .. MaxIterSmall) \cup {DefaultMaxIter}
    /\ attempt = 0 /\ x = 0 /\ y = 0 /\ c = 0 /\ d = 0 /\ iters = 0
    /\ rho_pc = "call" /\ rho_result = None /\ draws = 0 /\ rho_calls = 1
    /\ FsIdle /\ IppIdle /\ GpIdle /\ GsIdle /\ DlIdle

\* factor_semiprime(N) called directly.
InitFactor ==
    /\ top = "factor_semiprime"
    /\ N \in (2 .. MaxSmallN) \cup {8051} \cup BigN
    /\ fs_pc = "call" /\ f1 = None /\ f2 = None
    /\ p_true = 0 /\ q_true = 0 /\ success = FALSE
    /\ RhoIdle /\ IppIdle /\ GpIdle /\ GsIdle /\ DlIdle

\* run_experiment of experiment1_factor after generate_semiprime returned.
InitHarness ==
    /\ top = "run_experiment"
    /\ \E pq \in HarnessPairs :
          /\ p_true = pq[1] /\ q_true = pq[2] /\ N = pq[1] * pq[2]
    /\ fs_pc = "call" /\ f1 = None /\ f2 = None /\ success = FALSE
    /\ RhoIdle /\ IppIdle /\ GpIdle /\ GsIdle /\ DlIdle

Init == InitRho \/ InitFactor \/ InitHarness

\* is_probable_prime(n) called directly with the default k.
InitIpp ==
    /\ top = "is_probable_prime"
    /\ ipp_n \in (-1 .. MaxIppN) \cup ProbeN
    /\ ipp_pc = "call" /\ ipp_round = 0 /\ ipp_result = FALSE
    /\ accepted = {}
    /\ RhoIdle /\ FsIdle /\ GpIdle /\ GsIdle /\ DlIdle

\* generate_prime(bits) called directly.
InitGp ==
    /\ top = "generate_prime"
    /\ gp_bits \in -1 .. MaxPrimeBits
    /\ gp_pc = "call" /\ candidate = 0 /\ gp_result = None
    /\ gp_sampled = FALSE
    /\ RhoIdle /\ FsIdle /\ IppIdle /\ GsIdle /\ DlIdle

\* generate_semiprime(bits) called directly.
InitGs ==
    /\ top = "generate_semiprime"
    /\ gs_bits \in 0 .. MaxSemiBits
    /\ gs_pc = "call" /\ p = 0 /\ q = 0 /\ gs_N = 0
    /\ RhoIdle /\ FsIdle /\ IppIdle /\ GpIdle /\ DlIdle

PrimeInit == InitIpp \/ InitGp \/ InitGs

\* run_experiment of experiment2_ec at the top of a sample: the group is
\* Z_grp written additively, G one of its non-identity elements.
DlogInit ==
    /\ top = "ec_run_experiment"
    /\ grp \in 2 .. MaxOrder
    /\ G \in 1 .. (grp - 1)
    /\ max_k \in 0 .. MaxK
    /\ max_secret \in 1 .. MaxSecret
    /\ Q = 0 /\ secret_k = 0 /\ current = 0 /\ k = 0 /\ dl_pc = "sample"
    /\ found_k = None /\ dl_success = FALSE
    /\ RhoIdle /\ FsIdle /\ IppIdle /\ GpIdle /\ GsIdle

----------------------------------------------------------------------------
\* pollards_rho(n, max_iter)

\* lines 71-72: even n returns 2 at once; otherwise the attempt loop starts.
RhoCall ==
    /\ UNCHANGED <<primeVars, dlVars>>
    /\ rho_pc = "call"
    /\ IF n % 2 = 0
       THEN /\ rho_result' = 2
            /\ rho_pc' = "done"
       ELSE /\ rho_pc' = "attempt"
            /\ UNCHANGED rho_result
    /\ UNCHANGED <<top, n, max_iter, attempt, x, y, c, d, iters, draws,
                   rho_calls, fsVars>>

\* lines 74-79: an attempt draws x and c and resets y, d, iters.
RhoAttempt ==
    /\ UNCHANGED <<primeVars, dlVars>>
    /\ rho_pc = "attempt"
    /\ attempt < Attempts
    /\ \E rx \in RandBelow(n - 2), rc \in RandBelow(n - 1) :
          /\ x' = rx + 2
          /\ y' = rx + 2
          /\ c' = rc + 1
    /\ d' = 1
    /\ iters' = 0
    /\ draws' = draws + 2
    /\ rho_pc' = "loop"
    /\ UNCHANGED <<top, n, max_iter, attempt, rho_result, rho_calls, fsVars>>

\* lines 80-87: one iteration of the while loop; `break` when d == n.
RhoIter ==
    /\ UNCHANGED <<primeVars, dlVars>>
    /\ rho_pc = "loop"
    /\ RhoLoopGuard(d, iters, max_iter)
    /\ LET x1 == RhoF(x, c, n)
           y1 == RhoF(RhoF(y, c, n), c, n)
           d1 == RhoGcd(x1, y1, n)
       IN  /\ x' = x1
           /\ y' = y1
           /\ d' = d1
           /\ iters' = iters + 1
           /\ rho_pc' = IF d1 = n THEN "check" ELSE "loop"
    /\ UNCHANGED <<top, n, max_iter, attempt, c, rho_result, draws,
                   rho_calls, fsVars>>

\* lines 88-89: the attempt is over; return d or go to the next attempt.
RhoCheck ==
    /\ UNCHANGED <<primeVars, dlVars>>
    /\ \/ rho_pc = "check"
       \/ rho_pc = "loop" /\ ~RhoLoopGuard(d, iters, max_iter)
    /\ IF RhoFound(d, n)
       THEN /\ rho_result' = d
            /\ rho_pc' = "done"
            /\ UNCHANGED attempt
       ELSE /\ attempt' = attempt + 1
            /\ rho_pc' = "attempt"
            /\ UNCHANGED rho_result
    /\ UNCHANGED <<top, n, max_iter, x, y, c, d, iters, draws, rho_calls,
                   fsVars>>

\* line 90: all attempts used.
RhoExhausted ==
    /\ UNCHANGED <<primeVars, dlVars>>
    /\ rho_pc = "attempt"
    /\ attempt >= Attempts
    /\ rho_result' = None
    /\ rho_pc' = "done"
    /\ UNCHANGED <<top, n, max_iter, attempt, x, y, c, d, iters, draws,
                   rho_calls, fsVars>>

----------------------------------------------------------------------------
\* factor_semiprime(n)

\* lines 103-107: trial division; a divisor returns at once, otherwise
\* pollards_rho(n) is called with the default max_iter.
FsCall ==
    /\ UNCHANGED <<primeVars, dlVars>>
    /\ fs_pc = "call"
    /\ LET small == trial_division_small(N, TrialLimit)
       IN  IF small # None /\ small # 0
           THEN /\ f1' = small
                /\ f2' = N \div small
                /\ fs_pc' = "done"
                /\ UNCHANGED rhoVars
           ELSE /\ fs_pc' = "rho"
                /\ n' = N
                /\ max_iter' = DefaultMaxIter
                /\ rho_pc' = "call"
                /\ rho_calls' = rho_calls + 1
                /\ UNCHANGED <<f1, f2, attempt, x, y, c, d, iters,
                               rho_result, draws>>
    /\ UNCHANGED <<top, N, p_true, q_true, success>>

\* lines 108-110: the result of pollards_rho becomes the pair.
FsReturn ==
    /\ UNCHANGED <<primeVars, dlVars>>
    /\ fs_pc = "rho"
    /\ rho_pc = "done"
    /\ IF rho_result = None
       THEN /\ f1' = None
            /\ f2' = None
       ELSE /\ f1' = rho_result
            /\ f2' = n \div rho_result
    /\ fs_pc' = "done"
    /\ UNCHANGED <<top, N, p_true, q_true, success, rhoVars>>

\* run_experiment lines 130-135: the success flag of the row.
HarnessRecord ==
    /\ UNCHANGED <<primeVars, dlVars>>
    /\ top = "run_experiment"
    /\ fs_pc = "done"
    /\ success' = HarnessSuccess(f1, f2, p_true, q_true)
    /\ fs_pc' = "recorded"
    /\ UNCHANGED <<top, N, f1, f2, p_true, q_true, rhoVars>>

----------------------------------------------------------------------------
\* Helpers of the primality test and the generators.

RECURSIVE Pow2(_)
Pow2(e) == IF e <= 0 THEN 1 ELSE 2 * Pow2(e - 1)

\* a | b on non-negative integers, bit by bit.
RECURSIVE BitOr(_, _)
BitOr(a, b) ==
    IF a = 0 THEN b
    ELSE IF b = 0 THEN a
    ELSE (IF a % 2 = 1 \/ b % 2 = 1 THEN 1 ELSE 0)
         + 2 * BitOr(a \div 2, b \div 2)

\* int.bit_length() of a non-negative integer.
RECURSIVE BitLength(_)
BitLength(v) == IF v <= 0 THEN 0 ELSE 1 + BitLength(v \div 2)

\* secrets.randbits(bits)
RandBits(bits) == 0 .. (Pow2(bits) - 1)

\* pow(a, e, m) by repeated squaring (m stays far below 2^15 here, so the
\* products are exact).
RECURSIVE PowMod(_, _, _)
PowMod(a, e, m) ==
    IF e = 0 THEN 1 % m
    ELSE (((PowMod(a, e \div 2, m) ^ 2) % m)
          * (IF e % 2 = 1 THEN a % m ELSE 1)) % m

\* small_primes of is_probable_prime
SmallPrimes == <<2, 3, 5, 7, 11, 13, 17, 19, 23, 29>>

\* lines 21-23: index of the first small prime dividing m, 0 when none does.
SmallPrimeHit(m) ==
    LET hits == {i \in 1 .. Len(SmallPrimes) : m % SmallPrimes[i] = 0}
    IN  IF hits = {} THEN 0
        ELSE CHOOSE i \in hits : \A j \in hits : i <= j

\* lines 25-29: m - 1 = dd * 2^ss with dd odd, as <<ss, dd>>.
RECURSIVE TwoAdic(_, _)
TwoAdic(ss, dd) == IF dd % 2 = 0 THEN TwoAdic(ss + 1, dd \div 2)
                   ELSE <<ss, dd>>
Decompose(m) == TwoAdic(0, m - 1)

\* lines 36-40: x is squared up to `times` times and the loop stops at the
\* first square equal to m - 1; the j-th square of xx = a^dd is
\* a^(dd * 2^j) % m.
SquareFinds(a, dd, times, m) ==
    \E j \in 1 .. times : PowMod(a, dd * Pow2(j), m) = m - 1

\* lines 32-42: one Miller-Rabin round with base a; FALSE means composite.
RoundPasses_only1(a, m) ==
    LET sd == Decompose(m)
        xx == PowMod(a, sd[2], m)
    IN  xx = 1 \/ SquareFinds(a, sd[2], sd[1] - 1, m)
RoundPasses(a, m) ==
    LET sd == Decompose(m)
        xx == PowMod(a, sd[2], m)
    IN  xx = 1 \/ xx = m - 1 \/ SquareFinds(a, sd[2], sd[1] - 1, m)

\* line 51: randbits(bits) | (1 << (bits - 1)) | 1
Candidate_notop(r, bits) == BitOr(r, 1)
Candidate(r, bits) == BitOr(BitOr(r, Pow2(bits - 1)), 1)

\* line 61: `while q == p`
SamePrime_never(a, b) == FALSE
SamePrime(a, b) == b = a

----------------------------------------------------------------------------
\* is_probable_prime(n, k = 8)

\* lines 18-29: n < 2, the small primes, then the rounds start.
IppCall ==
    /\ ipp_pc = "call"
    /\ IF ipp_n < 2
       THEN /\ ipp_result' = FALSE
            /\ ipp_pc' = "done"
            /\ UNCHANGED accepted
       ELSE LET hit == SmallPrimeHit(ipp_n)
            IN  IF hit # 0
                THEN /\ ipp_result' = (ipp_n = SmallPrimes[hit])
                     /\ ipp_pc' = "done"
                     /\ accepted' = IF ipp_n = SmallPrimes[hit]
                                    THEN accepted \cup {ipp_n}
                                    ELSE accepted
                ELSE /\ ipp_pc' = "rounds"
                     /\ UNCHANGED <<ipp_result, accepted>>
    /\ ipp_round' = 0
    /\ UNCHANGED <<top, ipp_n, gpVars, gsVars, factorVars, dlVars>>

\* lines 30-42: one round with a random base a = r + 2 of [2, n - 2]; the
\* round either passes or reports composite.
IppRound ==
    /\ ipp_pc = "rounds"
    /\ ipp_round < DefaultRounds
    /\ \E pass \in {RoundPasses(r + 2, ipp_n) : r \in 0 .. (ipp_n - 4)} :
          IF pass
          THEN /\ ipp_round' = ipp_round + 1
               /\ UNCHANGED <<ipp_pc, ipp_result>>
          ELSE /\ ipp_result' = FALSE
               /\ ipp_pc' = "done"
               /\ UNCHANGED ipp_round
    /\ UNCHANGED <<top, ipp_n, accepted, gpVars, gsVars, factorVars, dlVars>>

\* line 43: every round passed.
IppAllPassed ==
    /\ ipp_pc = "rounds"
    /\ ipp_round >= DefaultRounds
    /\ ipp_result' = TRUE
    /\ ipp_pc' = "done"
    /\ accepted' = accepted \cup {ipp_n}
    /\ UNCHANGED <<top, ipp_n, ipp_round, gpVars, gsVars, factorVars, dlVars>>

----------------------------------------------------------------------------
\* generate_prime(bits)

\* lines 48-49: ValueError for bits < 2.
GpCall ==
    /\ gp_pc = "call"
    /\ gp_pc' = IF gp_bits < 2 THEN "error" ELSE "sample"
    /\ UNCHANGED <<top, gp_bits, candidate, gp_result, gp_sampled, ippVars,
                   gsVars, factorVars, dlVars>>

\* lines 51-52: sample a candidate and hand it to is_probable_prime.
GpSample(r) ==
    /\ gp_pc = "sample"
    /\ r \in RandBits(gp_bits)
    /\ candidate' = Candidate(r, gp_bits)
    /\ gp_sampled' = TRUE
    /\ ipp_n' = candidate'
    /\ ipp_pc' = "call"
    /\ ipp_round' = 0
    /\ gp_pc' = "test"
    /\ UNCHANGED <<top, gp_bits, gp_result, ipp_result, accepted, gsVars,
                   factorVars, dlVars>>

\* lines 52-53: return the candidate when the test accepted it, else loop.
GpTest ==
    /\ gp_pc = "test"
    /\ ipp_pc = "done"
    /\ IF ipp_result
       THEN /\ gp_result' = candidate
            /\ gp_pc' = "done"
       ELSE /\ gp_pc' = "sample"
            /\ UNCHANGED gp_result
    /\ UNCHANGED <<top, gp_bits, candidate, gp_sampled, ippVars, gsVars,
                   factorVars, dlVars>>

----------------------------------------------------------------------------
\* generate_semiprime(bits)

\* lines 57-58: p = generate_prime(bits // 2)
GsCall ==
    /\ gs_pc = "call"
    /\ gp_bits' = gs_bits \div 2
    /\ gp_pc' = "call"
    /\ gp_sampled' = FALSE
    /\ gp_result' = None
    /\ gs_pc' = "p"
    /\ UNCHANGED <<top, gs_bits, p, q, gs_N, candidate, ippVars, factorVars,
                   dlVars>>

\* lines 58-59: p is there; q = generate_prime(bits - half)
GsGotP ==
    /\ gs_pc = "p"
    /\ gp_pc = "done"
    /\ p' = gp_result
    /\ gp_bits' = gs_bits - (gs_bits \div 2)
    /\ gp_pc' = "call"
    /\ gp_sampled' = FALSE
    /\ gp_result' = None
    /\ gs_pc' = "q"
    /\ UNCHANGED <<top, gs_bits, q, gs_N, candidate, ippVars, factorVars,
                   dlVars>>

\* lines 59 and 62: q is there.
GsGotQ ==
    /\ gs_pc = "q"
    /\ gp_pc = "done"
    /\ q' = gp_result
    /\ gs_pc' = "check"
    /\ UNCHANGED <<top, gs_bits, p, gs_N, gpVars, ippVars, factorVars,
                   dlVars>>

\* lines 61-63: regenerate q while it equals p, else return (p * q, p, q).
GsCheck ==
    /\ gs_pc = "check"
    /\ IF SamePrime(p, q)
       THEN /\ gp_bits' = gs_bits - (gs_bits \div 2)
            /\ gp_pc' = "call"
            /\ gp_sampled' = FALSE
            /\ gp_result' = None
            /\ gs_pc' = "q"
            /\ UNCHANGED gs_N
       ELSE /\ gs_N' = p * q
            /\ gs_pc' = "done"
            /\ UNCHANGED <<gp_bits, gp_pc, gp_sampled, gp_result>>
    /\ UNCHANGED <<top, gs_bits, p, q, candidate, ippVars, factorVars,
                   dlVars>>

\* the ValueError of generate_prime leaves generate_semiprime as well.
GsError ==
    /\ gs_pc \in {"p", "q"}
    /\ gp_pc = "error"
    /\ gs_pc' = "error"
    /\ UNCHANGED <<top, gs_bits, p, q, gs_N, gpVars, ippVars, factorVars,
                   dlVars>>

----------------------------------------------------------------------------
\* brute_force_dlog(G, Q, max_k) in the additive group Z_grp.

\* Point.__add__ of the curve library
PointAdd(P1, P2, m) == (P1 + P2) % m

\* `while k <= max_k`
DlLoopGuard_lt(kk, cap) == kk < cap
DlLoopGuard(kk, cap) == kk <= cap

\* int * Point of the curve library
ScalarMul(kk, P1, m) == (kk * P1) % m

\* random.randint(1, max_secret)
RandInt(lo, hi) == lo .. hi

\* run_experiment lines 68-69: draw the secret, compute Q, call.
DlSample ==
    /\ dl_pc = "sample"
    /\ \E s \in RandInt(1, max_secret) :
          /\ secret_k' = s
          /\ Q' = ScalarMul(s, G, grp)
    /\ dl_pc' = "call"
    /\ UNCHANGED <<top, grp, G, max_k, max_secret, current, k, found_k,
                   dl_success, factorVars, primeVars>>

\* lines 27-30: Q == G returns 1, otherwise the loop starts at k = 1.
DlCall ==
    /\ dl_pc = "call"
    /\ IF Q = G
       THEN /\ found_k' = 1
            /\ dl_pc' = "done"
            /\ UNCHANGED <<current, k>>
       ELSE /\ current' = G
            /\ k' = 1
            /\ dl_pc' = "loop"
            /\ UNCHANGED found_k
    /\ UNCHANGED <<top, grp, G, Q, max_k, max_secret, secret_k, dl_success,
                   factorVars, primeVars>>

\* lines 31-35: one iteration of `while k <= max_k`.
DlIter ==
    /\ dl_pc = "loop"
    /\ DlLoopGuard(k, max_k)
    /\ IF current = Q
       THEN /\ found_k' = k
            /\ dl_pc' = "done"
            /\ UNCHANGED <<current, k>>
       ELSE /\ current' = PointAdd(current, G, grp)
            /\ k' = k + 1
            /\ UNCHANGED <<found_k, dl_pc>>
    /\ UNCHANGED <<top, grp, G, Q, max_k, max_secret, secret_k, dl_success,
                   factorVars, primeVars>>

\* line 36: the loop ran out.
DlExhausted ==
    /\ dl_pc = "loop"
    /\ ~DlLoopGuard(k, max_k)
    /\ found_k' = None
    /\ dl_pc' = "done"
    /\ UNCHANGED <<top, grp, G, Q, max_k, max_secret, secret_k, current, k,
                   dl_success, factorVars, primeVars>>

\* run_experiment line 76: success = (found_k == secret_k)
DlRecord ==
    /\ dl_pc = "done"
    /\ dl_success' = (found_k = secret_k)
    /\ dl_pc' = "recorded"
    /\ UNCHANGED <<top, grp, G, Q, max_k, max_secret, secret_k, current, k,
                   found_k, factorVars, primeVars>>

----------------------------------------------------------------------------
\* Specifications.

Next ==
    \/ RhoCall
    \/ RhoAttempt
    \/ RhoIter
    \/ RhoCheck
    \/ RhoExhausted
    \/ FsCall
    \/ FsReturn
    \/ HarnessRecord

\* experiment1_factor: pollards_rho, factor_semiprime, the harness row.
Spec == Init /\ [][Next]_vars

PrimeNext ==
    \/ IppCall
    \/ IppRound
    \/ IppAllPassed
    \/ GpCall
    \/ \E r \in RandBits(gp_bits) : GpSample(r)
    \/ GpTest
    \/ GsCall
    \/ GsGotP
    \/ GsGotQ
    \/ GsCheck
    \/ GsError

\* experiment1_factor: is_probable_prime, generate_prime, generate_semiprime.
PrimeSpec == PrimeInit /\ [][PrimeNext]_vars

\* The same under fair sampling.  The program keeps running, and every
\* odd value of the requested length has a fixed positive chance at each
\* draw, so a kind of draw that is possible infinitely often happens
\* infinitely often: a draw of a prime, and a draw of a prime other than p.
SamplePrime ==
    \E r \in RandBits(gp_bits) :
        GpSample(r) /\ \A v \in 2 .. (candidate' - 1) : candidate' % v # 0

SampleOtherPrime == SamplePrime /\ candidate' # p

PrimeLiveSpec ==
    /\ PrimeInit
    /\ [][PrimeNext]_vars
    /\ WF_vars(PrimeNext)
    /\ SF_vars(SamplePrime)
    /\ SF_vars(SampleOtherPrime)

DlogNext ==
    \/ DlSample
    \/ DlCall
    \/ DlIter
    \/ DlExhausted
    \/ DlRecord

\* experiment2_ec: brute_force_dlog and the harness row.
DlogSpec == DlogInit /\ [][DlogNext]_vars

----------------------------------------------------------------------------
\* Oracles used by the properties.

IsPrime(m) == m >= 2 /\ \A v \in 2 .. (m - 1) : v * v > m \/ m % v # 0

Divides(a, b) == a # 0 /\ b % a = 0

HasSmallDivisor(m) == \E v \in 2 .. TrialLimit : Divides(v, m)

HasSmallPrimeFactor(m) ==
    \E i \in 1 .. Len(SmallPrimes) : Divides(SmallPrimes[i], m)

FsReturned == fs_pc \in {"done", "recorded"}

RhoOdd == rho_pc # "idle" /\ n >= 3 /\ n % 2 = 1

\* Order of G in Z_grp.
OrderOfG == CHOOSE j \in 1 .. grp :
                /\ ScalarMul(j, G, grp) = 0
                /\ \A i \in 1 .. (j - 1) : ScalarMul(i, G, grp) # 0

----------------------------------------------------------------------------
\* C1: whenever factor_semiprime(N), N >= 2, returns a pair with both
\* components non-None, the product of the components is N.
C1_ProductIsN ==
    (FsReturned /\ N >= 2 /\ f1 # None /\ f2 # None) => f1 * f2 = N

C1_Witness ==
    /\ fs_pc = "done" /\ rho_calls = 1 /\ rho_pc = "done"
    /\ f1 # None /\ f2 # None /\ f1 > TrialLimit /\ f1 * f2 = N

\* C2: for N = p * q with p, q distinct primes factor_semiprime returns
\* (None, None) or a pair whose set is {p, q}; the harness never records
\* success = False for a pair of two non-None components.
C2_PairIsTrueFactors ==
    (top = "run_experiment" /\ FsReturned) =>
        /\ \/ f1 = None /\ f2 = None
           \/ f1 # None /\ f2 # None /\ {f1, f2} = {p_true, q_true}
        /\ fs_pc = "recorded" => (success <=> (f1 # None /\ f2 # None))

C2_Witness ==
    /\ top = "run_experiment" /\ fs_pc = "recorded" /\ success
    /\ rho_calls = 1 /\ {f1, f2} = {p_true, q_true} /\ p_true > TrialLimit

\* C3: when some d of 2..1000 divides N, factor_semiprime returns
\* (d_min, N / d_min) for the smallest such d, pollards_rho is not called
\* and no random value is drawn; factor_semiprime(8051) returns {83, 97}.
C3_TrialDivisionPath ==
    (top # "pollards_rho" /\ fs_pc # "idle" /\ HasSmallDivisor(N)) =>
        /\ rho_calls = 0
        /\ draws = 0
        /\ rho_pc = "idle"
        /\ FsReturned =>
              /\ f1 \in 2 .. TrialLimit
              /\ Divides(f1, N)
              /\ \A w \in 2 .. (f1 - 1) : ~Divides(w, N)
              /\ f2 * f1 = N
              /\ N = 8051 => {f1, f2} = {83, 97}

C3_Witness ==
    /\ top = "factor_semiprime" /\ fs_pc = "done" /\ N = 8051
    /\ f1 = 83 /\ f2 = 97 /\ rho_calls = 0 /\ draws = 0

\* C4: generate_prime(bits) fails before sampling when bits < 2; for
\* bits >= 2 every sampled candidate is odd and lies in
\* [2^(bits-1), 2^bits), and the returned value is the candidate that
\* is_probable_prime accepted.
C4_GeneratePrime ==
    /\ (gp_pc # "idle" /\ gp_bits < 2) =>
          (~gp_sampled /\ gp_pc \in {"call", "error"})
    /\ gp_pc = "error" => (gp_bits < 2 /\ ~gp_sampled)
    /\ (gp_bits >= 2 /\ gp_sampled) =>
          /\ candidate % 2 = 1
          /\ Pow2(gp_bits - 1) <= candidate
          /\ candidate < Pow2(gp_bits)
    /\ gp_pc = "done" =>
          /\ gp_bits >= 2 /\ gp_sampled
          /\ gp_result = candidate
          /\ gp_result \in accepted
          /\ ipp_n = gp_result /\ ipp_pc = "done" /\ ipp_result

C4_Witness ==
    /\ top = "generate_prime" /\ gp_pc = "done" /\ gp_bits >= 5
    /\ ipp_round = DefaultRounds /\ gp_result = candidate

\* C5: when generate_semiprime(bits) returns (N, p, q): p * q = N, p # q,
\* p has bits // 2 bits, q has bits - bits // 2 bits, and both were
\* accepted by is_probable_prime.
C5_GenerateSemiprime ==
    gs_pc = "done" =>
        /\ gs_N = p * q
        /\ p # q
        /\ BitLength(p) = gs_bits \div 2
        /\ BitLength(q) = gs_bits - (gs_bits \div 2)
        /\ p \in accepted
        /\ q \in accepted

C5_Witness ==
    /\ gs_pc = "done" /\ gs_bits >= 6 /\ p > q /\ gs_N = p * q
    /\ BitLength(p) = BitLength(q)

\* C6 as stated: is_probable_prime(n) with the default k agrees with the
\* trial-division oracle for every n of the range and every choice of bases.
C6_AgreesWithOracle ==
    ipp_pc = "done" => (ipp_result <=> IsPrime(ipp_n))

\* C6 amended: is_probable_prime(n) is false for n < 2, true for every
\* prime n, and false for every composite n with a prime factor <= 29, so
\* it agrees with the oracle for every n < 961 = 31 * 31.
C6_ExactBelow961 ==
    ipp_pc = "done" =>
        /\ ipp_n < 2 => ~ipp_result
        /\ IsPrime(ipp_n) => ipp_result
        /\ (~IsPrime(ipp_n) /\ HasSmallPrimeFactor(ipp_n)) => ~ipp_result
        /\ ipp_n < 961 => (ipp_result <=> IsPrime(ipp_n))

C6_Witness ==
    /\ top = "is_probable_prime" /\ ipp_pc = "done" /\ ipp_result
    /\ ipp_round = DefaultRounds /\ IsPrime(ipp_n) /\ ipp_n > 29

\* C7 as stated: brute_force_dlog returns k only if k * G = Q and
\* 1 <= k <= max_k, the smallest such k when one exists, None exactly when
\* no k of 1..max_k has k * G = Q; in the loop current = k * G.
C7_DlogWithinMaxK ==
    /\ dl_pc = "loop" => current = ScalarMul(k, G, grp)
    /\ dl_pc \in {"done", "recorded"} =>
          /\ found_k # None =>
                /\ ScalarMul(found_k, G, grp) = Q
                /\ 1 <= found_k /\ found_k <= max_k
                /\ \A j \in 1 .. (found_k - 1) : ScalarMul(j, G, grp) # Q
          /\ found_k = None <=>
                \A j \in 1 .. max_k : ScalarMul(j, G, grp) # Q
          /\ (secret_k <= max_k /\ secret_k < OrderOfG) => found_k = secret_k

\* C7 amended: the same with max_k >= 1; for max_k < 1 the call returns 1
\* when Q = G and None otherwise, i.e. the range is 1..max(max_k, 1).
DlogCap == IF max_k < 1 THEN 1 ELSE max_k
C7_DlogWithinCap ==
    /\ dl_pc = "loop" =>
          /\ current = ScalarMul(k, G, grp)
          /\ 1 <= k /\ k <= max_k + 1
    /\ dl_pc \in {"done", "recorded"} =>
          /\ found_k # None =>
                /\ ScalarMul(found_k, G, grp) = Q
                /\ 1 <= found_k /\ found_k <= DlogCap
                /\ \A j \in 1 .. (found_k - 1) : ScalarMul(j, G, grp) # Q
          /\ found_k = None <=>
                \A j \in 1 .. DlogCap : ScalarMul(j, G, grp) # Q
          /\ (secret_k <= max_k /\ secret_k < OrderOfG) => found_k = secret_k
    /\ dl_pc = "recorded" =>
          ((secret_k <= max_k /\ secret_k < OrderOfG) => dl_success)

C7_Witness ==
    /\ dl_pc = "recorded" /\ dl_success /\ found_k >= 3
    /\ found_k = secret_k /\ current = Q /\ k = found_k

\* C8: pollards_rho(n), n >= 2, returns None or a nontrivial factor d of n
\* (d divides n, 1 < d < n); for even n it returns 2 without any draw.
C8_NontrivialFactor ==
    (rho_pc = "done" /\ n >= 2) =>
        /\ \/ rho_result = None
           \/ /\ 1 < rho_result /\ rho_result < n
              /\ Divides(rho_result, n)
        /\ n % 2 = 0 => (rho_result = 2 /\ draws = 0)

\* C9: for odd n >= 3 pollards_rho terminates: at most 10 attempts, each
\* of at most max_iter iterations and over as soon as d # 1; an attempt
\* that ends with d = n, or with d = 1 at the cap, is followed by a restart
\* with fresh x and c; None is returned exactly when all 10 attempts ended
\* that way, and factor_semiprime then returns (None, None).
RhoMeasure ==
    LET per == max_iter + 3
        left == Attempts - attempt
    IN  CASE rho_pc = "call" -> Attempts * per + 2
          [] rho_pc = "attempt" -> left * per + 1
          [] rho_pc = "loop" -> (left - 1) * per + 3 + (max_iter - iters)
          [] rho_pc = "check" -> (left - 1) * per + 2
          [] OTHER -> 0

C9_StateInv ==
    RhoOdd =>
        /\ 0 <= attempt /\ attempt <= Attempts
        /\ 0 <= iters /\ iters <= max_iter
        /\ rho_pc \in {"loop", "check"} => attempt < Attempts
        /\ rho_pc \in {"attempt", "done"} => draws = 2 * attempt
                                             \/ (rho_pc = "done"
                                                 /\ rho_result # None
                                                 /\ draws = 2 * attempt + 2)
        /\ rho_pc \in {"loop", "check"} => draws = 2 * attempt + 2
        /\ rho_pc = "check" => d = n
        /\ rho_pc = "done" => (rho_result = None <=> attempt = Attempts)
        \* the running call can always take its next step (no draw fails)
        /\ rho_pc = "call" => ENABLED RhoCall
        /\ rho_pc = "attempt" => (ENABLED RhoAttempt \/ ENABLED RhoExhausted)
        /\ rho_pc = "loop" =>
              (RhoLoopGuard(d, iters, max_iter) \/ ENABLED RhoCheck)
        /\ rho_pc = "check" => ENABLED RhoCheck
        /\ (fs_pc \in {"done", "recorded"} /\ rho_pc = "done"
            /\ rho_result = None) => (f1 = None /\ f2 = None)

C9_Step ==
    RhoOdd =>
        \* every step of the running call decreases the measure
        /\ rho_pc # "done" => (RhoMeasure' < RhoMeasure /\ RhoMeasure' >= 0)
        \* no iteration once d # 1
        /\ (rho_pc = "loop" /\ d # 1) => iters' = iters
        \* an attempt is abandoned only with d = n or d = 1 at the cap
        /\ (rho_pc \in {"loop", "check"} /\ rho_pc' = "attempt") =>
              /\ d = n \/ (d = 1 /\ iters = max_iter)
              /\ attempt' = attempt + 1
        \* the next attempt draws x and c afresh
        /\ (rho_pc = "attempt" /\ rho_pc' = "loop") =>
              /\ draws' = draws + 2
              /\ x' \in 2 .. (n - 1) /\ y' = x' /\ c' \in 1 .. (n - 1)
              /\ d' = 1 /\ iters' = 0
        \* a factor is returned only from a finished attempt
        /\ (rho_pc # "done" /\ rho_pc' = "done" /\ rho_result' # None) =>
              (d # 1 /\ d # n /\ rho_result' = d)

\* C9: the bounds and the exactness of None hold in every state, and
\* every step of a running pollards_rho(n), n odd, decreases RhoMeasure.
C9_RhoTerminates == [](C9_StateInv) /\ [][C9_Step]_vars

C9_Witness ==
    /\ top = "factor_semiprime" /\ fs_pc = "done" /\ rho_pc = "done"
    /\ attempt = Attempts /\ rho_result = None /\ f1 = None /\ f2 = None
    /\ draws = 2 * Attempts /\ iters > 0

\* C10: for every bits >= 4 generate_semiprime(bits) eventually returns
\* under fair sampling.
C10_SemiprimeReturns ==
    (gs_pc = "call" /\ gs_bits >= 4) ~> (gs_pc = "done")

====
